---- MODULE Spec2Model ----
(***************************************************************************)
(* Boolean query trees of the inverted-index full-text search:             *)
(* the bottom-up rewriter (OptimizeInPlaceInner of NOT, AND, OR, AND_NOT)  *)
(* and the iterator factory (CreateSearch) of                              *)
(* src/storage/invertedindex/search/query_node.cpp.                        *)
(***************************************************************************)
EXTENDS Integers, Sequences, FiniteSets, TLC

\* ------------------------------------------------------------------------
\* Bounds of the model
\* ------------------------------------------------------------------------

\* largest number of nodes of an enumerated parser tree
MaxNodes == 7

\* weight carried by every node of a parser tree (a boost other than 1.0)
InputWeight == 2

\* largest number of nodes of a parser tree that gets an opaque leaf
MaxOpaqueNodes == 5

\* the terms the enumerated parser trees are written over
Terms == {"a", "b"}

\* the column every term leaf names
Column == "body"

\* ------------------------------------------------------------------------
\* Query nodes
\* ------------------------------------------------------------------------

\* weight of a node made by std::make_unique<...>() ("weight is reset to 1.0")
DefaultWeight == 1

\* the opaque leaf kinds of QueryNodeType
OpaqueTypes == {"WAND", "PHRASE", "PREFIX_TERM", "SUFFIX_TERM", "SUBSTRING_TERM"}

\* the kinds that carry children_ (MultiQueryNode)
MultiTypes == {"AND", "OR", "NOT", "AND_NOT"}

\* QueryNodeType, as QueryNodeTypeToString enumerates it
QueryNodeType == {"INVALID", "TERM"} \cup MultiTypes \cup OpaqueTypes

\* a leaf: TermQueryNode (type TERM) or an opaque leaf of kind ty
LeafNode(ty, w, t) ==
    [type |-> ty, weight |-> w, column |-> Column, term |-> t, children |-> <<>>]

\* a MultiQueryNode of kind ty owning the children kids
MultiNode(ty, w, kids) ==
    [type |-> ty, weight |-> w, column |-> "", term |-> "", children |-> kids]

\* std::make_unique<...QueryNode>() followed by the assignment of children_
NewNode(ty, kids) == MultiNode(ty, DefaultWeight, kids)

\* nullptr
NullNode == [type |-> "INVALID", weight |-> 0, column |-> "", term |-> "", children |-> <<>>]

\* a returned node
Ok(n) == [node |-> n, error |-> ""]

\* UnrecoverableError(msg): no node is returned
Fatal(msg) == [node |-> NullNode, error |-> msg]

ErrNotArity == "Invalid query statement: NotQueryNode node should have at least 1 child"
ErrAndArity == "Invalid query statement: AndQueryNode node should have at least 2 children"
ErrOrArity == "Invalid query statement: OrQueryNode node should have at least 2 children"
ErrOrMixed == "Invalid query statement: OrQueryNode node should not have both or list and not list"
ErrUnexpected == "OptimizeInPlaceInner: Unexpected case!"
ErrAndNot == "OptimizeInPlaceInner: Unexpected case! AndNotQueryNode should not exist in parser output"
ErrNotSearch == "NOT query node should be optimized into AND_NOT query node"

\* ------------------------------------------------------------------------
\* NotQueryNode::OptimizeInPlaceInner
\* ------------------------------------------------------------------------

RECURSIVE NotCollect_KeepNot(_, _, _)
\* a slip: a "not" child shares the case of TERM, "and" and "and_not"
NotCollect_KeepNot(children, i, acc) ==
    IF i > Len(children) THEN [new_not_list |-> acc, error |-> ""]
    ELSE LET child == children[i] IN
         CASE child.type \in {"TERM", "AND", "AND_NOT", "NOT"} ->
                NotCollect_KeepNot(children, i + 1, Append(acc, child))
           [] child.type = "OR" ->
                NotCollect_KeepNot(children, i + 1, acc \o child.children)
           [] OTHER -> [new_not_list |-> <<>>, error |-> ErrUnexpected]

RECURSIVE NotCollect(_, _, _)
\* the loop over children_ from child i on, new_not_list so far in acc
NotCollect(children, i, acc) ==
    IF i > Len(children) THEN [new_not_list |-> acc, error |-> ""]
    ELSE LET child == children[i] IN
         CASE child.type \in {"TERM", "AND", "AND_NOT"} ->
                NotCollect(children, i + 1, Append(acc, child))
           [] child.type = "OR" ->
                NotCollect(children, i + 1, acc \o child.children)
           [] OTHER -> [new_not_list |-> <<>>, error |-> ErrUnexpected]

\* children: the already optimized children_ of the NOT node
NotQueryNode_OptimizeInPlaceInner(children) ==
    IF Len(children) = 0 THEN Fatal(ErrNotArity)
    ELSE LET c == NotCollect(children, 1, <<>>) IN
         IF c.error # "" THEN Fatal(c.error)
         ELSE Ok(NewNode("NOT", c.new_not_list))

\* ------------------------------------------------------------------------
\* AndQueryNode::OptimizeInPlaceInner
\* ------------------------------------------------------------------------

\* a slip: the AND_NOT child is moved to and_list whole, like a TERM or an OR
AndNotChildAndPart_Whole(child) == <<child>>

\* case AND_NOT of step 2.1: what the child adds to and_list
AndNotChildAndPart(child) ==
    LET first_child == Head(child.children) IN
    IF first_child.type = "AND" THEN first_child.children ELSE <<first_child>>

\* a slip: not_list takes the children from begin(), not from std::next(begin())
AndNotChildNotPart_FromBegin(child) == child.children

\* case AND_NOT of step 2.1: what the child adds to not_list
AndNotChildNotPart(child) == Tail(child.children)

RECURSIVE AndCollect_OpaqueAsTerm(_, _, _, _)
\* a slip: the opaque leaf kinds share the case of TERM
AndCollect_OpaqueAsTerm(children, i, and_list, not_list) ==
    IF i > Len(children) THEN [and_list |-> and_list, not_list |-> not_list, error |-> ""]
    ELSE LET child == children[i] IN
         CASE child.type = "AND" ->
                AndCollect_OpaqueAsTerm(children, i + 1, and_list \o child.children, not_list)
           [] child.type \in {"TERM", "OR"} \cup OpaqueTypes ->
                AndCollect_OpaqueAsTerm(children, i + 1, Append(and_list, child), not_list)
           [] child.type = "NOT" ->
                AndCollect_OpaqueAsTerm(children, i + 1, and_list, not_list \o child.children)
           [] child.type = "AND_NOT" ->
                AndCollect_OpaqueAsTerm(children, i + 1,
                                        and_list \o AndNotChildAndPart(child),
                                        not_list \o AndNotChildNotPart(child))
           [] OTHER -> [and_list |-> <<>>, not_list |-> <<>>, error |-> ErrUnexpected]

RECURSIVE AndCollect(_, _, _, _)
\* step 2.1: the loop over children_ from child i on
AndCollect(children, i, and_list, not_list) ==
    IF i > Len(children) THEN [and_list |-> and_list, not_list |-> not_list, error |-> ""]
    ELSE LET child == children[i] IN
         CASE child.type = "AND" ->
                AndCollect(children, i + 1, and_list \o child.children, not_list)
           [] child.type \in {"TERM", "OR"} ->
                AndCollect(children, i + 1, Append(and_list, child), not_list)
           [] child.type = "NOT" ->
                AndCollect(children, i + 1, and_list, not_list \o child.children)
           [] child.type = "AND_NOT" ->
                AndCollect(children, i + 1,
                           and_list \o AndNotChildAndPart(child),
                           not_list \o AndNotChildNotPart(child))
           [] OTHER -> [and_list |-> <<>>, not_list |-> <<>>, error |-> ErrUnexpected]

\* a slip: and_list is put under a new "and" even when it holds one node
AndBuild_AlwaysWrap(and_list, not_list) ==
    IF Len(and_list) = 0 THEN NewNode("NOT", not_list)
    ELSE IF Len(not_list) = 0 THEN NewNode("AND", and_list)
    ELSE NewNode("AND_NOT", <<NewNode("AND", and_list)>> \o not_list)

\* step 2.2: the node built from and_list and not_list
AndBuild(and_list, not_list) ==
    IF Len(and_list) = 0 THEN NewNode("NOT", not_list)
    ELSE IF Len(not_list) = 0 THEN NewNode("AND", and_list)
    ELSE LET first == IF Len(and_list) = 1 THEN and_list[1] ELSE NewNode("AND", and_list)
         IN  NewNode("AND_NOT", <<first>> \o not_list)

\* children: the already optimized children_ of the AND node
AndQueryNode_OptimizeInPlaceInner(children) ==
    IF Len(children) < 2 THEN Fatal(ErrAndArity)
    ELSE LET c == AndCollect(children, 1, <<>>, <<>>) IN
         IF c.error # "" THEN Fatal(c.error)
         ELSE Ok(AndBuild(c.and_list, c.not_list))

\* ------------------------------------------------------------------------
\* OrQueryNode::OptimizeInPlaceInner
\* ------------------------------------------------------------------------

RECURSIVE OrCollect(_, _, _, _)
\* step 3.1: the loop over children_ from child i on
OrCollect(children, i, or_list, not_list) ==
    IF i > Len(children) THEN [or_list |-> or_list, not_list |-> not_list, error |-> ""]
    ELSE LET child == children[i] IN
         CASE child.type = "OR" ->
                OrCollect(children, i + 1, or_list \o child.children, not_list)
           [] child.type \in {"TERM", "AND", "AND_NOT"} ->
                OrCollect(children, i + 1, Append(or_list, child), not_list)
           [] child.type = "NOT" ->
                OrCollect(children, i + 1, or_list, Append(not_list, child))
           [] OTHER -> [or_list |-> <<>>, not_list |-> <<>>, error |-> ErrUnexpected]

\* a slip: the children of a "not" with several children are put under an
\* "and", not an "or"
OrNotChild_And(not_child) ==
    IF Len(not_child.children) = 1 THEN not_child.children[1]
    ELSE NewNode("AND", not_child.children)

\* the loop of step 3.2 over not_list: one child of the new "and" per "not"
OrNotChild(not_child) ==
    IF Len(not_child.children) = 1 THEN not_child.children[1]
    ELSE NewNode("OR", not_child.children)

\* step 3.2 when or_list is empty: "not" of (child and ...)
OrBuildNot(not_list) ==
    NewNode("NOT", <<NewNode("AND", [i \in 1..Len(not_list) |-> OrNotChild(not_list[i])])>>)

\* a slip: or list and not list both non-empty builds an "or" of both
OrQueryNode_OptimizeInPlaceInner_AllowMixed(children) ==
    IF Len(children) < 2 THEN Fatal(ErrOrArity)
    ELSE LET c == OrCollect(children, 1, <<>>, <<>>) IN
         IF c.error # "" THEN Fatal(c.error)
         ELSE IF Len(c.or_list) = 0 THEN Ok(OrBuildNot(c.not_list))
         ELSE Ok(NewNode("OR", c.or_list \o c.not_list))

\* children: the already optimized children_ of the OR node
OrQueryNode_OptimizeInPlaceInner(children) ==
    IF Len(children) < 2 THEN Fatal(ErrOrArity)
    ELSE LET c == OrCollect(children, 1, <<>>, <<>>) IN
         IF c.error # "" THEN Fatal(c.error)
         ELSE IF Len(c.or_list) = 0 THEN Ok(OrBuildNot(c.not_list))
         ELSE IF Len(c.not_list) = 0 THEN Ok(NewNode("OR", c.or_list))
         ELSE Fatal(ErrOrMixed)

\* ------------------------------------------------------------------------
\* AndNotQueryNode::OptimizeInPlaceInner
\* ------------------------------------------------------------------------

\* a slip: an AND_NOT of the input is let through
AndNotQueryNode_OptimizeInPlaceInner_PassThrough(children) ==
    Ok(NewNode("AND_NOT", children))

AndNotQueryNode_OptimizeInPlaceInner(children) == Fatal(ErrAndNot)

\* ------------------------------------------------------------------------
\* The traversal: from leaf to root, replace tree node in place
\* ------------------------------------------------------------------------

\* the rewrite of a node of kind ty whose optimized children are kids
OptimizeInPlaceInner(ty, kids) ==
    CASE ty = "NOT" -> NotQueryNode_OptimizeInPlaceInner(kids)
      [] ty = "AND" -> AndQueryNode_OptimizeInPlaceInner(kids)
      [] ty = "OR" -> OrQueryNode_OptimizeInPlaceInner(kids)
      [] ty = "AND_NOT" -> AndNotQueryNode_OptimizeInPlaceInner(kids)

\* the error of the first child that raised one, "" when none did
FirstError(rs) ==
    IF \A i \in 1..Len(rs) : rs[i].error = "" THEN ""
    ELSE rs[CHOOSE i \in 1..Len(rs) :
                /\ rs[i].error # ""
                /\ \A j \in 1..(i - 1) : rs[j].error = ""].error

RECURSIVE OptimizeInPlace(_)
\* children first, then the node's own rewrite; a leaf is returned as it is
OptimizeInPlace(node) ==
    IF node.type \notin MultiTypes THEN Ok(node)
    ELSE LET rs == [i \in 1..Len(node.children) |-> OptimizeInPlace(node.children[i])]
             err == FirstError(rs)
         IN  IF err # "" THEN Fatal(err)
             ELSE OptimizeInPlaceInner(node.type, [i \in 1..Len(rs) |-> rs[i].node])

\* ------------------------------------------------------------------------
\* CreateSearch: the iterator factory
\* ------------------------------------------------------------------------

\* the index readers a query may meet: the column has no index reader, or it
\* has one whose dictionary holds some of the query's terms
Indexes(terms) ==
    {[readers |-> {}, postings |-> {}]}
    \cup {[readers |-> {Column}, postings |-> ps] : ps \in SUBSET terms}

\* index_reader.GetColumnIndexReader(column_id) is not null
HasColumnIndexReader(index, column) == column \in index.readers

\* column_index_reader->Lookup(term_, ...) is not null
HasPosting(index, term) == term \in index.postings

\* a null std::unique_ptr<DocIterator>
NullIter == [kind |-> "null", leaf |-> <<>>, term |-> "", subs |-> <<>>]

\* MakeUnique<TermDocIterator>(posting_iterator, column_id) for the leaf at path
\* leaf of the query tree (the path stands for the address of the new object)
TermDocIterator(leaf, term) ==
    [kind |-> "TermDocIterator", leaf |-> leaf, term |-> term, subs |-> <<>>]

\* MakeUnique<AndIterator | AndNotIterator | OrIterator>(std::move(sub_doc_iters))
MultiIterator(kind, sub_doc_iters) ==
    [kind |-> kind, leaf |-> <<>>, term |-> "", subs |-> sub_doc_iters]

\* scorer->AddDocIterator(search.get(), column_id)
AddDocIterator(scorer, search, column) ==
    Append(scorer, [iter |-> search.leaf, term |-> search.term, column |-> column])

\* what a CreateSearch call leaves: the iterator returned, the scorer, and the
\* message of the UnrecoverableError that ended it ("" when none did)
Created(iter, scorer) == [iter |-> iter, scorer |-> scorer, error |-> ""]
Failed(scorer, msg) == [iter |-> NullIter, scorer |-> scorer, error |-> msg]

\* a slip: the iterator is registered before the lookup is known to succeed
TermQueryNode_CreateSearch_RegisterFirst(node, path, index, scorer) ==
    IF ~HasColumnIndexReader(index, node.column) THEN Created(NullIter, scorer)
    ELSE LET search == TermDocIterator(path, node.term)
             registered == AddDocIterator(scorer, search, node.column)
         IN  IF ~HasPosting(index, node.term) THEN Created(NullIter, registered)
             ELSE Created(search, registered)

\* TermQueryNode::CreateSearch
TermQueryNode_CreateSearch(node, path, index, scorer) ==
    IF ~HasColumnIndexReader(index, node.column) THEN Created(NullIter, scorer)
    ELSE IF ~HasPosting(index, node.term) THEN Created(NullIter, scorer)
    ELSE LET search == TermDocIterator(path, node.term)
         IN  Created(search, AddDocIterator(scorer, search, node.column))

\* the tail of AndQueryNode::CreateSearch: what is returned for sub_doc_iters
AndReturn(sub_doc_iters) ==
    IF Len(sub_doc_iters) = 0 THEN NullIter
    ELSE IF Len(sub_doc_iters) = 1 THEN sub_doc_iters[1]
    ELSE MultiIterator("AndIterator", sub_doc_iters)

\* the tail of OrQueryNode::CreateSearch
OrReturn(sub_doc_iters) ==
    IF Len(sub_doc_iters) = 0 THEN NullIter
    ELSE IF Len(sub_doc_iters) = 1 THEN sub_doc_iters[1]
    ELSE MultiIterator("OrIterator", sub_doc_iters)

\* the tail of AndNotQueryNode::CreateSearch (sub_doc_iters holds first_iter)
AndNotReturn(sub_doc_iters) ==
    IF Len(sub_doc_iters) = 1 THEN sub_doc_iters[1]
    ELSE MultiIterator("AndNotIterator", sub_doc_iters)

RECURSIVE CreateSearch(_, _, _, _), CreateChildren(_, _, _, _, _, _)

\* the loop "for child: iter = child->CreateSearch(...); if (iter) emplace_back"
\* from child i on; r.iter is not used, subs is sub_doc_iters so far
CreateChildren(node, path, index, i, subs, scorer) ==
    IF i > Len(node.children) THEN [subs |-> subs, scorer |-> scorer, error |-> ""]
    ELSE LET r == CreateSearch(node.children[i], Append(path, i), index, scorer) IN
         IF r.error # "" THEN [subs |-> <<>>, scorer |-> r.scorer, error |-> r.error]
         ELSE CreateChildren(node, path, index, i + 1,
                             IF r.iter = NullIter THEN subs ELSE Append(subs, r.iter),
                             r.scorer)

\* AndQueryNode::CreateSearch
AndQueryNode_CreateSearch(node, path, index, scorer) ==
    LET c == CreateChildren(node, path, index, 1, <<>>, scorer) IN
    IF c.error # "" THEN Failed(c.scorer, c.error)
    ELSE Created(AndReturn(c.subs), c.scorer)

\* OrQueryNode::CreateSearch
OrQueryNode_CreateSearch(node, path, index, scorer) ==
    LET c == CreateChildren(node, path, index, 1, <<>>, scorer) IN
    IF c.error # "" THEN Failed(c.scorer, c.error)
    ELSE Created(OrReturn(c.subs), c.scorer)

\* a slip: the first child is not checked, a null first child is dropped
\* like any other
AndNotQueryNode_CreateSearch_NoCheck(node, path, index, scorer) ==
    LET c == CreateChildren(node, path, index, 1, <<>>, scorer) IN
    IF c.error # "" THEN Failed(c.scorer, c.error)
    ELSE IF Len(c.subs) = 0 THEN Created(NullIter, c.scorer)
    ELSE Created(AndNotReturn(c.subs), c.scorer)

\* AndNotQueryNode::CreateSearch
AndNotQueryNode_CreateSearch(node, path, index, scorer) ==
    LET first == CreateSearch(node.children[1], Append(path, 1), index, scorer) IN
    IF first.error # "" THEN Failed(first.scorer, first.error)
    ELSE IF first.iter = NullIter THEN Created(NullIter, first.scorer)
    ELSE LET c == CreateChildren(node, path, index, 2, <<first.iter>>, first.scorer) IN
         IF c.error # "" THEN Failed(c.scorer, c.error)
         ELSE Created(AndNotReturn(c.subs), c.scorer)

\* NotQueryNode::CreateSearch
NotQueryNode_CreateSearch(node, path, index, scorer) == Failed(scorer, ErrNotSearch)

\* child->CreateSearch(table_entry, index_reader, scorer): the virtual call
CreateSearch(node, path, index, scorer) ==
    CASE node.type = "TERM" -> TermQueryNode_CreateSearch(node, path, index, scorer)
      [] node.type = "AND" -> AndQueryNode_CreateSearch(node, path, index, scorer)
      [] node.type = "OR" -> OrQueryNode_CreateSearch(node, path, index, scorer)
      [] node.type = "AND_NOT" -> AndNotQueryNode_CreateSearch(node, path, index, scorer)
      [] node.type = "NOT" -> NotQueryNode_CreateSearch(node, path, index, scorer)

\* ------------------------------------------------------------------------
\* Parser output: the trees the rewriter is given
\* ------------------------------------------------------------------------

\* a term leaf of a parser tree
TermNode(t) == LeafNode("TERM", InputWeight, t)

\* the term leaves
TermNodes == {TermNode(t) : t \in Terms}

RECURSIVE Size(_)
\* the number of nodes of a tree
Size(n) ==
    LET RECURSIVE Sum(_)
        Sum(i) == IF i = 0 THEN 0 ELSE Size(n.children[i]) + Sum(i - 1)
    IN  1 + Sum(Len(n.children))

\* the sequence s with element i replaced by x
Replace(s, i, x) == [j \in 1..Len(s) |-> IF j = i THEN x ELSE s[j]]

RECURSIVE Grown(_)
\* the trees one parse step away from n: a leaf becomes NOT(leaf), AND(leaf, leaf)
\* or OR(leaf, leaf); an AND or OR takes one more leaf as its last child
Grown(n) ==
    IF n.type \notin MultiTypes
    THEN {MultiNode("NOT", InputWeight, <<l>>) : l \in TermNodes}
         \cup {MultiNode(ty, InputWeight, <<l1, l2>>) :
                 ty \in {"AND", "OR"}, l1 \in TermNodes, l2 \in TermNodes}
    ELSE (IF n.type \in {"AND", "OR"}
          THEN {[n EXCEPT !.children = Append(@, l)] : l \in TermNodes}
          ELSE {})
         \cup UNION {{[n EXCEPT !.children = Replace(@, i, g)] : g \in Grown(n.children[i])} :
                     i \in 1..Len(n.children)}

RECURSIVE OpaqueVariants(_)
\* the trees that are n with one TERM leaf turned into an opaque leaf
OpaqueVariants(n) ==
    IF n.type = "TERM" THEN {[n EXCEPT !.type = ty] : ty \in OpaqueTypes}
    ELSE UNION {{[n EXCEPT !.children = Replace(@, i, g)] : g \in OpaqueVariants(n.children[i])} :
                i \in 1..Len(n.children)}

\* the letters of the worked examples
A == TermNode("a")
B == TermNode("b")
C == TermNode("c")
D == TermNode("d")
E == TermNode("e")

\* a parser node of kind ty over kids
P(ty, kids) == MultiNode(ty, InputWeight, kids)

\* the examples of the comment on "not": "A and (not B)", "A and ((not B) and
\* (not C))", "A and ((not B) or (not C))", "A or (not B)", "A and ((not B) or C)"
CommentExamples ==
    { P("AND", <<A, P("NOT", <<B>>)>>),
      P("AND", <<A, P("AND", <<P("NOT", <<B>>), P("NOT", <<C>>)>>)>>),
      P("AND", <<A, P("OR", <<P("NOT", <<B>>), P("NOT", <<C>>)>>)>>),
      P("OR", <<A, P("NOT", <<B>>)>>),
      P("AND", <<A, P("OR", <<P("NOT", <<B>>), C>>)>>) }

\* the further worked examples: AND(AND(a, b), OR(c, OR(d, e))) and
\* OR(NOT(a), NOT(OR(b, c)))
WorkedExamples ==
    { P("AND", <<P("AND", <<A, B>>), P("OR", <<C, P("OR", <<D, E>>)>>)>>),
      P("OR", <<P("NOT", <<A>>), P("NOT", <<P("OR", <<B, C>>)>>)>>) }

RECURSIVE TermsOf(_)
\* the terms of the TERM leaves of a tree
TermsOf(n) ==
    IF n.type = "TERM" THEN {n.term}
    ELSE UNION {TermsOf(n.children[i]) : i \in 1..Len(n.children)}

\* ------------------------------------------------------------------------
\* State
\* ------------------------------------------------------------------------

VARIABLES
    phase,        \* "parsing", "parsed", "optimized", "rejected", "reoptimized", "searched"
    tree,         \* the parser's tree
    optimized,    \* what the rewriter returned for tree: [node, error]
    reoptimized,  \* what the rewriter returned for optimized.node: [node, error]
    index,        \* the index reader CreateSearch was given
    search        \* what CreateSearch left: [iter, scorer, error]

vars == <<phase, tree, optimized, reoptimized, index, search>>

NoIndex == [readers |-> {}, postings |-> {}]

Init ==
    /\ \/ tree \in TermNodes /\ phase = "parsing"
       \/ tree \in CommentExamples \cup WorkedExamples /\ phase = "parsed"
    /\ optimized = Ok(NullNode)
    /\ reoptimized = Ok(NullNode)
    /\ index = NoIndex
    /\ search = Created(NullIter, <<>>)

\* the parser extends the tree by one step
Parse ==
    /\ phase = "parsing"
    /\ \E t \in Grown(tree) :
         /\ Size(t) <= MaxNodes
         /\ tree' = t
    /\ UNCHANGED <<phase, optimized, reoptimized, index, search>>

\* the parser ends with one leaf of a small tree being an opaque leaf
ParseOpaque ==
    /\ phase = "parsing"
    /\ Size(tree) <= MaxOpaqueNodes
    /\ tree' \in OpaqueVariants(tree)
    /\ phase' = "parsed"
    /\ UNCHANGED <<optimized, reoptimized, index, search>>

\* the rewriter is run on the parser's tree
Optimize ==
    /\ phase \in {"parsing", "parsed"}
    /\ optimized' = OptimizeInPlace(tree)
    /\ phase' = IF optimized'.error = "" THEN "optimized" ELSE "rejected"
    /\ UNCHANGED <<tree, reoptimized, index, search>>

\* the rewriter is run once more, on the tree it returned
Reoptimize ==
    /\ phase = "optimized"
    /\ reoptimized' = OptimizeInPlace(optimized.node)
    /\ phase' = "reoptimized"
    /\ UNCHANGED <<tree, optimized, index, search>>

\* CreateSearch is called on the root of the tree the rewriter returned,
\* with an empty scorer
Search ==
    /\ phase = "optimized"
    /\ optimized.node.type \in {"TERM"} \cup MultiTypes
    /\ \E idx \in Indexes(TermsOf(optimized.node)) :
         /\ index' = idx
         /\ search' = CreateSearch(optimized.node, <<>>, idx, <<>>)
    /\ phase' = "searched"
    /\ UNCHANGED <<tree, optimized, reoptimized>>

Next == Parse \/ ParseOpaque \/ Optimize \/ Reoptimize \/ Search

Spec == Init /\ [][Next]_vars

\* ------------------------------------------------------------------------
\* Notions the properties are stated in
\* ------------------------------------------------------------------------

RECURSIVE SubNodes(_)
\* the nodes of a tree, each with the subtree below it
SubNodes(n) == {n} \cup UNION {SubNodes(n.children[i]) : i \in 1..Len(n.children)}

\* the kinds of the children of n
ChildTypes(n) == {n.children[i].type : i \in 1..Len(n.children)}

\* the tree has a leaf of an opaque kind
HasOpaque(n) == \E m \in SubNodes(n) : m.type \in OpaqueTypes

\* the rewriter has returned a tree for a parser tree of TERM, AND, OR, NOT
Accepted == phase = "optimized" /\ ~HasOpaque(tree)

\* the rewriter has run on a parser tree of TERM, AND, OR, NOT
Decided == phase \in {"optimized", "rejected"} /\ ~HasOpaque(tree)

\* the optimized children of a node of the parser tree
OptimizedChildren(n) == [i \in 1..Len(n.children) |-> OptimizeInPlace(n.children[i])]

\* ------------------------------------------------------------------------
\* C1: canonical form of the returned tree
\* ------------------------------------------------------------------------

\* the row of the canonical-form table for the node n
CanonicalRow(n) ==
    CASE n.type = "AND" -> Len(n.children) >= 2 /\ ChildTypes(n) \subseteq {"TERM", "OR"}
      [] n.type = "OR" -> Len(n.children) >= 2 /\ ChildTypes(n) \subseteq {"TERM", "AND", "AND_NOT"}
      [] n.type = "NOT" -> Len(n.children) >= 1 /\ ChildTypes(n) \subseteq {"TERM", "AND", "AND_NOT"}
      [] n.type = "AND_NOT" -> Len(n.children) >= 2 /\ ChildTypes(n) \subseteq {"TERM", "AND", "OR"}
      [] OTHER -> Len(n.children) = 0

\* C1: every node of a tree the rewriter returns for a parser tree of TERM, AND,
\* OR, NOT obeys its row of the canonical-form table: AND has >= 2 children of
\* kind TERM or OR; OR has >= 2 of kind TERM, AND, AND_NOT; NOT has >= 1 of kind
\* TERM, AND, AND_NOT; AND_NOT has >= 2 of kind TERM, AND, OR.
C1_CanonicalForm ==
    Accepted => \A n \in SubNodes(optimized.node) : CanonicalRow(n)

\* ------------------------------------------------------------------------
\* C2: where AND_NOT may stand
\* ------------------------------------------------------------------------

\* C2 as stated: in a returned tree no AND_NOT is a direct child of an AND_NOT
\* and no AND_NOT is a direct child of a NOT.
C2_NoAndNotUnderAndNotOrNot ==
    Accepted =>
        \A n \in SubNodes(optimized.node) :
            n.type \in {"AND_NOT", "NOT"} => "AND_NOT" \notin ChildTypes(n)

\* C2 as amended: in a returned tree no AND_NOT is the first (positive) child of
\* an AND_NOT; as a later child (a subtrahend) of an AND_NOT, and as a child of
\* a NOT, an AND_NOT does occur.
C2_NoAndNotAsFirstChild ==
    Accepted =>
        \A n \in SubNodes(optimized.node) :
            n.type = "AND_NOT" => n.children[1].type # "AND_NOT"

\* an AND with an AND_NOT among its optimized children has been rewritten into
\* an AND_NOT, whose first child is not that AND_NOT
C2_Witness ==
    /\ Accepted
    /\ tree.type = "AND"
    /\ \E i \in 1..Len(tree.children) : OptimizeInPlace(tree.children[i]).node.type = "AND_NOT"
    /\ optimized.node.type = "AND_NOT"
    /\ optimized.node.children[1].type # "AND_NOT"

\* ------------------------------------------------------------------------
\* C3: running the rewriter twice
\* ------------------------------------------------------------------------

\* C3 as stated: the rewriter accepts the tree it returned and returns it
\* unchanged.
C3_Idempotent ==
    phase = "reoptimized" /\ ~HasOpaque(tree) =>
        /\ reoptimized.error = ""
        /\ reoptimized.node = optimized.node

\* the tree holds an AND_NOT node
HasAndNot(n) == \E m \in SubNodes(n) : m.type = "AND_NOT"

\* the tree holds an AND node with an AND child
HasAndInAnd(n) == \E m \in SubNodes(n) : m.type = "AND" /\ "AND" \in ChildTypes(m)

\* C3 as amended: the rewriter rejects the tree it returned when that tree holds
\* an AND_NOT node ("AndNotQueryNode should not exist in parser output") and
\* accepts it otherwise; when it accepts, what it returns is the tree it was
\* given unless that tree holds an AND with an AND child, which the second run
\* flattens.
C3_IdempotentWithoutAndNot ==
    phase = "reoptimized" /\ ~HasOpaque(tree) =>
        /\ HasAndNot(optimized.node) => reoptimized = Fatal(ErrAndNot)
        /\ ~HasAndNot(optimized.node) =>
              /\ reoptimized.error = ""
              /\ (reoptimized.node = optimized.node) <=> ~HasAndInAnd(optimized.node)

\* the second run returned the tree of composite nodes it was given
C3_Witness ==
    /\ phase = "reoptimized"
    /\ reoptimized.error = ""
    /\ reoptimized.node = optimized.node
    /\ optimized.node.type = "NOT"
    /\ optimized.node.children[1].type = "AND"
    /\ "OR" \in ChildTypes(optimized.node.children[1])

\* ------------------------------------------------------------------------
\* C4: the rewrite keeps the meaning
\* ------------------------------------------------------------------------

RECURSIVE Eval(_, _)
\* the boolean a tree denotes when term t holds iff asg[t]: AND_NOT(a; b1..bn)
\* is a and not b1 ... and not bn, NOT(c1..cn) is not c1 and ... and not cn
Eval(n, asg) ==
    CASE n.type = "TERM" -> asg[n.term]
      [] n.type = "AND" -> \A i \in 1..Len(n.children) : Eval(n.children[i], asg)
      [] n.type = "OR" -> \E i \in 1..Len(n.children) : Eval(n.children[i], asg)
      [] n.type = "NOT" -> \A i \in 1..Len(n.children) : ~Eval(n.children[i], asg)
      [] n.type = "AND_NOT" ->
            /\ Eval(n.children[1], asg)
            /\ \A i \in 2..Len(n.children) : ~Eval(n.children[i], asg)

\* C4: under every assignment of booleans to the terms, the parser tree and the
\* tree the rewriter returns for it denote the same boolean.
C4_SemanticPreservation ==
    Accepted =>
        \A asg \in [TermsOf(tree) -> BOOLEAN] :
            Eval(tree, asg) = Eval(optimized.node, asg)

\* an OR of NOTs, one of them over an OR, has been rewritten by De Morgan
C4_Witness ==
    /\ Accepted
    /\ tree.type = "OR"
    /\ optimized.node.type = "NOT"
    /\ "OR" \in ChildTypes(optimized.node.children[1])
    /\ Cardinality(TermsOf(tree)) >= 2

\* ------------------------------------------------------------------------
\* C5: an OR of NOT and non-NOT children is rejected
\* ------------------------------------------------------------------------

\* n is an OR whose children are all optimized without error into at least one
\* NOT and at least one node that is not a NOT
MixedOr(n) ==
    /\ n.type = "OR"
    /\ LET rs == OptimizedChildren(n) IN
       /\ \A i \in 1..Len(rs) : rs[i].error = ""
       /\ \E i \in 1..Len(rs) : rs[i].node.type = "NOT"
       /\ \E i \in 1..Len(rs) : rs[i].node.type \in {"TERM", "AND", "AND_NOT", "OR"}

\* C5: a parser tree that holds such an OR at any depth is rejected with an
\* error, and no tree is returned.
C5_MixedOrRejected ==
    Decided /\ (\E n \in SubNodes(tree) : MixedOr(n)) =>
        /\ phase = "rejected"
        /\ optimized.error # ""
        /\ optimized.node = NullNode

\* "A and ((not B) or C)": the OR below the root is rejected and so is the tree
C5_Witness ==
    /\ phase = "rejected"
    /\ tree = P("AND", <<A, P("OR", <<P("NOT", <<B>>), C>>)>>)
    /\ MixedOr(tree.children[2])
    /\ optimized = Fatal(ErrOrMixed)

\* ------------------------------------------------------------------------
\* C6: opaque leaves
\* ------------------------------------------------------------------------

RECURSIVE TermVersion(_)
\* the tree with a TERM leaf in the place of every opaque leaf
TermVersion(n) ==
    IF n.type \in OpaqueTypes THEN [n EXCEPT !.type = "TERM"]
    ELSE [n EXCEPT !.children = [i \in 1..Len(n.children) |-> TermVersion(n.children[i])]]

\* the opaque leaves of a tree
OpaqueLeaves(n) == {m \in SubNodes(n) : m.type \in OpaqueTypes}

\* the rewriter has run on an AND, OR or NOT with an opaque leaf below it
DecidedOpaque ==
    /\ phase \in {"optimized", "rejected"}
    /\ tree.type \in MultiTypes
    /\ HasOpaque(tree)

\* C6 as stated: the tree is accepted exactly when the tree with a TERM in the
\* opaque leaf's place is, and then the output is that tree's output with the
\* opaque leaf, unchanged, where the TERM would stand.
C6_OpaqueLikeTerm ==
    DecidedOpaque =>
        LET t == OptimizeInPlace(TermVersion(tree)) IN
        /\ (optimized.error = "") <=> (t.error = "")
        /\ optimized.error = "" =>
              /\ TermVersion(optimized.node) = t.node
              /\ OpaqueLeaves(optimized.node) = OpaqueLeaves(tree)

\* C6 as amended: an AND, OR or NOT with an opaque leaf below it is always
\* rejected and no tree is returned, whether or not the tree with a TERM in
\* that place is accepted; when the opaque leaf is a child of the root and the
\* root's children are optimized without error, the error is "Unexpected case!".
C6_OpaqueRejected ==
    DecidedOpaque =>
        /\ phase = "rejected"
        /\ optimized.node = NullNode
        /\ optimized.error # ""
        /\ ( /\ ChildTypes(tree) \cap OpaqueTypes # {}
             /\ \A i \in 1..Len(tree.children) : OptimizedChildren(tree)[i].error = "" )
           => optimized.error = ErrUnexpected

\* an AND with an opaque leaf as a child is rejected, and the same AND with a
\* TERM in that place is accepted
C6_Witness ==
    /\ DecidedOpaque
    /\ tree.type = "AND"
    /\ ChildTypes(tree) \cap OpaqueTypes # {}
    /\ optimized = Fatal(ErrUnexpected)
    /\ OptimizeInPlace(TermVersion(tree)).error = ""

\* ------------------------------------------------------------------------
\* C7, C8: when CreateSearch returns a null iterator
\* ------------------------------------------------------------------------

\* the TERM leaves of a tree
TermLeaves(n) == {m \in SubNodes(n) : m.type = "TERM"}

RECURSIVE PositiveLeaves(_)
\* the TERM leaves in positive position: not below a child other than the
\* first of an AND_NOT
PositiveLeaves(n) ==
    CASE n.type = "TERM" -> {n}
      [] n.type = "AND_NOT" -> PositiveLeaves(n.children[1])
      [] OTHER -> UNION {PositiveLeaves(n.children[i]) : i \in 1..Len(n.children)}

\* the leaf's column has an index reader and its term a posting list
Resolves(leaf, idx) ==
    HasColumnIndexReader(idx, leaf.column) /\ HasPosting(idx, leaf.term)

\* CreateSearch on the node n returns a null iterator
Absent(n, idx) == CreateSearch(n, <<>>, idx, <<>>).iter = NullIter

\* CreateSearch has returned for the tree the rewriter returned
Searched == phase = "searched" /\ search.error = ""

\* C7 as stated: CreateSearch returns null exactly when, for an AND, every TERM
\* leaf below it resolves to nothing; for an AND_NOT, every TERM leaf below its
\* first child does; for an OR, every TERM leaf below it does.
C7_AbsentIffLeavesAbsent ==
    Searched =>
        /\ (search.iter = NullIter) <=> Absent(optimized.node, index)
        /\ \A n \in SubNodes(optimized.node) :
              /\ n.type \in {"AND", "OR"} =>
                    (Absent(n, index) <=> \A l \in TermLeaves(n) : ~Resolves(l, index))
              /\ n.type = "AND_NOT" =>
                    (Absent(n, index) <=> \A l \in TermLeaves(n.children[1]) : ~Resolves(l, index))

\* C7 as amended: CreateSearch returns null exactly when every TERM leaf in
\* positive position below the node resolves to nothing, the leaves below the
\* subtrahends of an AND_NOT, at any depth, not counting.
C7_AbsentIffPositiveLeavesAbsent ==
    Searched =>
        /\ (search.iter = NullIter) <=> Absent(optimized.node, index)
        /\ \A n \in SubNodes(optimized.node) :
              Absent(n, index) <=> \A l \in PositiveLeaves(n) : ~Resolves(l, index)

\* an OR over an AND_NOT has returned null although a leaf below it resolves
C7_Witness ==
    /\ Searched
    /\ optimized.node.type = "OR"
    /\ "AND_NOT" \in ChildTypes(optimized.node)
    /\ search.iter = NullIter
    /\ \E l \in TermLeaves(optimized.node) : Resolves(l, index)

\* C8: when CreateSearch returns null for a child of an AND, it returns null
\* for the AND.
C8_AbsentPropagatesThroughAnd ==
    Searched =>
        \A n \in SubNodes(optimized.node) :
            ( /\ n.type = "AND"
              /\ \E i \in 1..Len(n.children) : Absent(n.children[i], index) )
            => Absent(n, index)

\* ------------------------------------------------------------------------
\* C9: the order of registration with the scorer
\* ------------------------------------------------------------------------

RECURSIVE LeafPaths(_, _)
\* the paths of the TERM leaves below n (itself at path), left to right
LeafPaths(n, path) ==
    IF n.type = "TERM" THEN <<path>>
    ELSE LET RECURSIVE Cat(_)
             Cat(i) == IF i > Len(n.children) THEN <<>>
                       ELSE LeafPaths(n.children[i], Append(path, i)) \o Cat(i + 1)
         IN  Cat(1)

RECURSIVE NodeAt(_, _)
\* the node at a path
NodeAt(n, path) == IF path = <<>> THEN n ELSE NodeAt(n.children[Head(path)], Tail(path))

\* the registrations a leaf at a path calls for
Registration(root, path) ==
    [iter |-> path, term |-> NodeAt(root, path).term, column |-> NodeAt(root, path).column]

\* no AND_NOT above the leaf has it below a subtrahend while every positive
\* leaf of that AND_NOT's first child resolves to nothing
Reached(root, path, idx) ==
    \A k \in 1..Len(path) :
        LET above == NodeAt(root, SubSeq(path, 1, k - 1)) IN
        (above.type = "AND_NOT" /\ path[k] >= 2)
            => \E l \in PositiveLeaves(above.children[1]) : Resolves(l, idx)

\* C9 as stated: the AddDocIterator calls are, in order, the TERM leaves whose
\* column reader and term lookup both succeed, taken left to right.
C9_RegistrationOrder ==
    Searched =>
        LET root == optimized.node
            Found(path) == Resolves(NodeAt(root, path), index)
            paths == SelectSeq(LeafPaths(root, <<>>), Found)
        IN  search.scorer = [i \in 1..Len(paths) |-> Registration(root, paths[i])]

\* C9 as amended: the AddDocIterator calls are, in order, the TERM leaves whose
\* column reader and term lookup both succeed, taken left to right, but for
\* the leaves below the subtrahends of an AND_NOT whose first child yields a
\* null iterator: those are not visited.
C9_RegistrationOrderOfVisited ==
    Searched =>
        LET root == optimized.node
            Visited(path) == Resolves(NodeAt(root, path), index) /\ Reached(root, path, index)
            paths == SelectSeq(LeafPaths(root, <<>>), Visited)
        IN  search.scorer = [i \in 1..Len(paths) |-> Registration(root, paths[i])]

\* two leaves are registered in order, one is skipped for its lookup, and the
\* subtrahend of an AND_NOT is registered after its first child
C9_Witness ==
    /\ Searched
    /\ optimized.node.type = "AND_NOT"
    /\ Len(search.scorer) >= 2
    /\ Len(search.scorer) < Len(LeafPaths(optimized.node, <<>>))
    /\ search.scorer[1].iter[1] = 1
    /\ search.scorer[Len(search.scorer)].iter[1] >= 2

\* ------------------------------------------------------------------------
\* C10: the AND rewrite
\* ------------------------------------------------------------------------

RECURSIVE Flat(_)
\* the concatenation of a sequence of sequences
Flat(ss) == IF ss = <<>> THEN <<>> ELSE Head(ss) \o Flat(Tail(ss))

\* what a child gives to and_list
ToAndList(k) ==
    CASE k.type \in {"TERM", "OR"} -> <<k>>
      [] k.type = "AND" -> k.children
      [] k.type = "AND_NOT" ->
            (IF k.children[1].type = "AND" THEN k.children[1].children ELSE <<k.children[1]>>)
      [] OTHER -> <<>>

\* what a child gives to not_list
ToNotList(k) ==
    CASE k.type = "NOT" -> k.children
      [] k.type = "AND_NOT" -> SubSeq(k.children, 2, Len(k.children))
      [] OTHER -> <<>>

\* the result the rule gives for the optimized children kids
AndRule(kids) ==
    LET and_list == Flat([i \in 1..Len(kids) |-> ToAndList(kids[i])])
        not_list == Flat([i \in 1..Len(kids) |-> ToNotList(kids[i])])
        fresh(ty, cs) == [type |-> ty, weight |-> 1, column |-> "", term |-> "", children |-> cs]
    IN  CASE not_list = <<>> -> fresh("AND", and_list)
          [] and_list = <<>> -> fresh("NOT", not_list)
          [] OTHER -> fresh("AND_NOT",
                            <<IF Len(and_list) = 1 THEN and_list[1] ELSE fresh("AND", and_list)>>
                                \o not_list)

\* a fresh node of the expected output
F(ty, kids) == [type |-> ty, weight |-> 1, column |-> "", term |-> "", children |-> kids]

\* C10: every AND node of the parser tree whose children are optimized without
\* error into >= 2 nodes of kind TERM, OR, AND, NOT, AND_NOT is rewritten as the
\* rule says; AND(a, NOT(b)) gives AND_NOT(a, b), AND(a, AND(NOT(b), NOT(c)))
\* gives AND_NOT(a, b, c), AND(AND(a, b), OR(c, OR(d, e))) gives
\* AND(a, b, OR(c, d, e)).
C10_AndRewrite ==
    Decided =>
        /\ \A n \in SubNodes(tree) :
              LET rs == OptimizedChildren(n)
                  kids == [i \in 1..Len(rs) |-> rs[i].node]
              IN  ( /\ n.type = "AND"
                    /\ Len(rs) >= 2
                    /\ \A i \in 1..Len(rs) : rs[i].error = "" )
                  => /\ OptimizeInPlace(n) = Ok(AndRule(kids))
                     /\ n = tree => optimized = Ok(AndRule(kids))
        /\ tree = P("AND", <<A, P("NOT", <<B>>)>>)
              => optimized = Ok(F("AND_NOT", <<A, B>>))
        /\ tree = P("AND", <<A, P("AND", <<P("NOT", <<B>>), P("NOT", <<C>>)>>)>>)
              => optimized = Ok(F("AND_NOT", <<A, B, C>>))
        /\ tree = P("AND", <<P("AND", <<A, B>>), P("OR", <<C, P("OR", <<D, E>>)>>)>>)
              => optimized = Ok(F("AND", <<A, B, F("OR", <<C, D, E>>)>>))

\* an AND over an AND_NOT whose first child is an AND, and over a NOT, has been
\* rewritten into an AND_NOT over a fresh AND
C10_Witness ==
    /\ Accepted
    /\ tree.type = "AND"
    /\ \E i \in 1..Len(tree.children) :
          LET k == OptimizeInPlace(tree.children[i]).node IN
          k.type = "AND_NOT" /\ k.children[1].type = "AND"
    /\ optimized.node.type = "AND_NOT"
    /\ optimized.node.children[1].type = "AND"
    /\ Len(optimized.node.children[1].children) >= 3
    /\ Len(optimized.node.children) >= 2

\* ------------------------------------------------------------------------
\* C11: where NOT may stand, and what CreateSearch does with it
\* ------------------------------------------------------------------------

\* a leaf of the returned tree has a posting list in the index
SomeLeafResolves == \E l \in TermLeaves(optimized.node) : Resolves(l, index)

\* C11: in a tree the rewriter returns for a parser tree of TERM, AND, OR, NOT,
\* no node has a NOT child (a NOT stands at the root only); CreateSearch on a
\* returned tree ends with "NOT query node should be optimized into AND_NOT
\* query node" exactly when the root is a NOT, it ends with no other error, and
\* when the root is a NOT nothing has been registered with the scorer.
C11_NotOnlyAtRoot ==
    /\ Accepted => \A n \in SubNodes(optimized.node) : "NOT" \notin ChildTypes(n)
    /\ phase = "searched" =>
          /\ search.error = ErrNotSearch <=> optimized.node.type = "NOT"
          /\ search.error \in {"", ErrNotSearch}
          /\ optimized.node.type = "NOT" => search.scorer = <<>> /\ search.iter = NullIter

\* CreateSearch has failed on a NOT root built by the OR rewrite, with an index
\* that holds a posting list for one of its leaves
C11_Witness ==
    /\ phase = "searched"
    /\ tree.type = "OR"
    /\ optimized.node.type = "NOT"
    /\ search.error = ErrNotSearch
    /\ SomeLeafResolves

\* ------------------------------------------------------------------------
\* C12: leaves are kept, fabricated nodes weigh 1.0
\* ------------------------------------------------------------------------

RECURSIVE LeafSeq(_)
\* the TERM leaves of a tree, left to right
LeafSeq(n) ==
    IF n.type = "TERM" THEN <<n>>
    ELSE Flat([i \in 1..Len(n.children) |-> LeafSeq(n.children[i])])

\* how often x occurs in the sequence s
Count(s, x) == Cardinality({i \in 1..Len(s) : s[i] = x})

\* C12: for a parser tree of TERM, AND, OR, NOT that the rewriter accepts, each
\* TERM leaf (column, term, weight) occurs in the returned tree as often as in
\* the parser tree, none lost and none duplicated, and every AND, OR, NOT,
\* AND_NOT node of the returned tree has weight 1.0.
C12_LeavesKeptWeightsReset ==
    Accepted =>
        /\ \A l \in TermLeaves(tree) \cup TermLeaves(optimized.node) :
              Count(LeafSeq(optimized.node), l) = Count(LeafSeq(tree), l)
        /\ \A n \in SubNodes(optimized.node) :
              n.type \in MultiTypes => n.weight = DefaultWeight

\* an AND whose composites carry a weight other than 1.0 has been rewritten
\* into an AND_NOT with the leaves in another order, over an AND_NOT child
C12_Witness ==
    /\ Accepted
    /\ tree.type = "AND"
    /\ tree.weight # DefaultWeight
    /\ "AND" \in ChildTypes(tree)
    /\ optimized.node.type = "AND_NOT"
    /\ Len(LeafSeq(tree)) >= 3
    /\ LeafSeq(optimized.node) # LeafSeq(tree)
    /\ \A l \in TermLeaves(optimized.node) : l.weight = InputWeight

====
